---- MODULE Spec2Model ----
(***************************************************************************)
(* CEO TOTO Tycoon backend: the ledger (public.users and the referral      *)
(* tables), the SQL functions of backend/sql/schema.sql and of the two     *)
(* migration fragments, and the request handlers of the two revisions of   *)
(* the Express / Telegram server.                                          *)
(*                                                                         *)
(* Every request (an SQL function call, an HTTP request, a Telegram        *)
(* update) is one call c \in Calls.  A call is started once, runs through  *)
(* its statements one store round trip at a time and keeps its outcome in  *)
(* req[c], so a state records the whole history of the calls made so far.  *)
(*                                                                         *)
(* Store semantics (PostgreSQL, READ COMMITTED): a statement sees the rows *)
(* committed before it starts; an uncommitted insert is invisible to       *)
(* readers, but an insert of the same key waits for it and then fails with *)
(* unique_violation; a function call is one transaction.                   *)
(***************************************************************************)
EXTENDS Integers, Sequences, FiniteSets, TLC

VARIABLES users, business_totals, referral_rewards, referrals, transactions,
          variable_conflict, pool, ADMIN_ID, limit, req

vars == <<users, business_totals, referral_rewards, referrals, transactions,
          variable_conflict, pool, ADMIN_ID, limit, req>>

(* ----------------------------- bounds ---------------------------------- *)

\* calls of the SQL functions in one run
SqlCalls == 3

\* requests to the Express server of part_000 in one run
WebCalls == 2

\* requests and Telegram updates to the server of index.js in one run
BotCalls == 2

\* calls of any entry point in one run against the shared store
AllCalls == 2

\* account-creating requests to the server of index.js in one run
CreateCalls == 3

\* purchases, direct referrals, updates and mine requests in one run
ShopCalls == 2

\* calls of calculatePassiveIncome in one run
IncomeCalls == 1

\* the startup of index.js and the Telegram messages handled in one run
PoolCalls == 2

\* largest value of the argument attempts of createPoolWithRetry (the
\* default and the value at startup are 6)
MaxAttempts == 6

\* callback queries and messages of the broadcast run
BroadcastCalls == 2

\* number of call slots
MaxCalls == 3

\* the bodies of POST /api/user/update: { id, coins: 0 }, { id, coins: -1 }
\* (no field is validated), { id, businesses: null }, { id, lastMine: 0 } and
\* { id } with no field at all; level and subscribed are columns the rows
\* here do not carry
UpdatePayloads ==
  {[setCoins |-> TRUE, coins |-> 0, nullBusinesses |-> FALSE, zeroLastMine |-> FALSE],
   [setCoins |-> TRUE, coins |-> 0 - 1, nullBusinesses |-> FALSE, zeroLastMine |-> FALSE],
   [setCoins |-> FALSE, coins |-> 0, nullBusinesses |-> TRUE, zeroLastMine |-> FALSE],
   [setCoins |-> FALSE, coins |-> 0, nullBusinesses |-> FALSE, zeroLastMine |-> TRUE],
   [setCoins |-> FALSE, coins |-> 0, nullBusinesses |-> FALSE, zeroLastMine |-> FALSE]}

\* the updatePayload of a request that supplied no field
NoUpdate ==
  [setCoins |-> FALSE, coins |-> 0, nullBusinesses |-> FALSE, zeroLastMine |-> FALSE]

Calls == 1..MaxCalls

\* user ids; "A" has an account from the start
Ids == {"A", "B", "C"}

NULL == "null"

Pairs == Ids \X Ids

\* business names: two of the six rows of public.businesses
Businesses == {"DAPP", "APPLE"}

\* values of p_business and keys of users.businesses: the names above and a
\* text that is the name of no business
BusinessNames == Businesses \cup {"FOO"}

(* --------------------------- the ledger -------------------------------- *)

\* part_001:27 p_coin_bonus default; schema.sql:147; part_002:29; index.js:502
REFERRAL_BONUS == 100

\* coins of a freshly created account (schema.sql:136, index.js:152, part_000:213)
START_COINS == 100

\* businesses = '{}'::jsonb: no key, every quantity reads as 0
NoBusinesses == [b \in BusinessNames |-> 0]

\* a slot of public.users with no row in it.  A row holds coins,
\* referrals_count (rc), referred_by (rb), businesses: biz, the quantity
\* under each key (0: no key), or bnull, the column is null, and last_mine
\* as the handlers compare it with Date.now(): "recent" is less than
\* MINE_COOLDOWN_MS ago, "elapsed" is 0, null or longer ago
NoRow ==
  [ex |-> FALSE, coins |-> 0, rc |-> 0, rb |-> NULL,
   biz |-> NoBusinesses, bnull |-> FALSE, last_mine |-> "elapsed"]

\* the row every handler inserts for a new account: coins 100,
\* referrals_count 0, referred_by as given
NewUserRow(referred_by) ==
  [ex |-> TRUE, coins |-> START_COINS, rc |-> 0, rb |-> referred_by,
   biz |-> NoBusinesses, bnull |-> FALSE, last_mine |-> "elapsed"]

\* a users table without the constraint: every referred_by passes
no_self_referral_dropped(id, referred_by) == TRUE

\* schema.sql: check (referred_by is null or referred_by <> id)
no_self_referral(id, referred_by) ==
  referred_by = NULL \/ referred_by # id

\* update users set coins = coins + bonus, referrals_count = referrals_count + 1
\* where id = ref: a single statement, applied to the latest committed row;
\* no row, no change
CreditReferrer(u, ref) ==
  IF ref \in Ids /\ u[ref].ex
    THEN [u EXCEPT ![ref].coins = @ + REFERRAL_BONUS, ![ref].rc = @ + 1]
    ELSE u

(* ----------------------------- calls ----------------------------------- *)

\* what a handler has read of a users row (coins, referrals_count, and the
\* passive income of its businesses); gain is what POST /api/mine answers as
\* earned + passive
NoneSeen == [coins |-> 0, rc |-> 0, passive |-> 0]

\* no purchase: p_business, p_qty, the quantity reported as owned, the keys
\* the totals trigger has still to fold, the sum its running statement has
\* computed, and the business_totals rows the transaction has written
NoPurchase ==
  [business |-> NULL, qty |-> 0, owned |-> 0, keys |-> <<>>, sum |-> 0,
   written |-> {}]

\* the keys of a businesses object handed to calculatePassiveIncome: two ids
\* of BUSINESSES, an id in lower case, a key of no business
BusinessKeysSent == {"DAPP", "APPLE", "dapp", "FOO"}

\* what a key of the object holds: nothing (the key is absent), a number, a
\* string of digits, any other string, null
QtyValues ==
  {[t |-> "absent", n |-> 0], [t |-> "num", n |-> 1], [t |-> "num", n |-> 2],
   [t |-> "numstr", n |-> 2], [t |-> "text", n |-> 0], [t |-> "null", n |-> 0]}

\* the argument of calculatePassiveIncome: an object, nothing (null or
\* undefined), a string that holds the object as JSON, a string that is not
\* JSON
ArgForms == {"object", "missing", "json", "badjson"}

\* no call of calculatePassiveIncome: the server it belongs to ("mine":
\* part_000, "bot_mine": index.js), its argument and its result (a number, or
\* NaN)
NoIncome ==
  [ver |-> "mine", form |-> "missing", biz |-> [k \in BusinessKeysSent |-> [t |-> "absent", n |-> 0]],
   nan |-> FALSE, total |-> 0]

\* no call of createPoolWithRetry: its argument attempts, the loop counter
\* i, the connections tried so far and lastErr (0: null, else the attempt
\* whose error it holds)
NoConnect == [attempts |-> 0, i |-> 0, made |-> 0, lastErr |-> 0]

\* no broadcast: the callback data and its sender, the rows the worker's
\* query returned, those the loop has still to visit, the bot.sendMessage
\* calls made per target, the counter sent and the "Sent to sent/rows.length"
\* report to the admin (none yet: -1)
NoReport == [sent |-> 0 - 1, total |-> 0 - 1]

NoBroadcast ==
  [data |-> "none", from |-> NULL, rows |-> {}, todo |-> {},
   tried |-> [i \in Ids |-> 0], sent |-> 0, report |-> NoReport]

Idle ==
  [h |-> "none", pc |-> "idle", r |-> NULL, d |-> NULL, out |-> "none",
   eff |-> NULL, seen |-> NoneSeen, bonus |-> "none", fault |-> FALSE,
   rpc |-> "none", buy |-> NoPurchase, gain |-> 0, inc |-> NoIncome,
   conn |-> NoConnect, upd |-> NoUpdate, credit |-> 0, note |-> "none", bc |-> NoBroadcast,
   first |-> FALSE, seq |-> FALSE, prior |-> FALSE, rex |-> FALSE, dex |-> FALSE]

Started(c) == req[c].pc # "idle"
Finished(c) == req[c].pc = "done"

\* calls start in the order of their numbers, limit of them in one run
MayStart(c) ==
  /\ req[c].pc = "idle"
  /\ c <= limit
  /\ IF c = 1 THEN TRUE ELSE Started(c - 1)

\* a transaction of another call holds an uncommitted insert of users row id
UserInsertPending(c, id) ==
  \E q \in Calls \ {c} :
    /\ req[q].d = id
    /\ req[q].pc \in {"mr_update", "msg_pg_rpc", "msg_pg_commit"}

\* another call holds an uncommitted referral_rewards row for the pair
RewardInsertPending(c, r, d) ==
  \E q \in Calls \ {c} :
    /\ req[q].h = "reward_referrer"
    /\ req[q].r = r /\ req[q].d = d
    /\ req[q].pc = "rr_update"

\* no lock is ever seen: select without for update and a blind write
RowLocked_NoLock(c, id) == FALSE

\* a purchase_business transaction of another call holds the lock of users
\* row id (select ... for update) and has not committed
RowLocked(c, id) ==
  \E q \in Calls \ {c} :
    /\ req[q].h = "purchase_business"
    /\ req[q].d = id
    /\ req[q].pc \in {"pb_trigger", "pb_totals"}

\* another transaction has written the business_totals row of k
TotalsLocked(c, k) ==
  \E q \in Calls \ {c} : \E w \in req[q].buy.written : w.name = k

\* BUSINESSES[].income: 1 for every business in part_000:78-83; 1 for DAPP
\* and 5 for APPLE in index.js:69-74
Income(h, b) == IF h = "bot_mine" /\ b = "APPLE" THEN 5 ELSE 1

\* calculatePassiveIncome(data.businesses || {}): income * qty over the keys
\* of the row's businesses
calculatePassiveIncome(h, row) ==
  IF row.bnull THEN 0
  ELSE Income(h, "DAPP") * row.biz["DAPP"] + Income(h, "APPLE") * row.biz["APPLE"]

\* BUSINESSES.find(...) for a key of the object: x.id === id in part_000;
\* x.id === key || x.name === key || x.id === key.toUpperCase() in index.js
\* (the names of DAPP and APPLE are their ids)
FindBusiness(h, key) ==
  IF key \in Businesses THEN key
  ELSE IF h = "bot_mine" /\ key = "dapp" THEN "DAPP"
  ELSE NULL

\* toNum(v) of index.js: 0 for null, the number, Number() of the string
\* without the characters outside 0-9 . - (0 for a string without digits)
toNum(v) == IF v.t \in {"num", "numstr"} THEN v.n ELSE 0

\* what one entry adds to total: index.js (b.income || 0) * (toNum(qty) || 0);
\* part_000 (b.income || 0) * (qty || 0), where * converts a string to a
\* number and a string that is no number gives NaN
EntryIncome(h, key, v) ==
  LET b == FindBusiness(h, key)
  IN IF v.t = "absent" \/ b = NULL THEN [nan |-> FALSE, n |-> 0]
     ELSE IF h = "bot_mine" THEN [nan |-> FALSE, n |-> Income(h, b) * toNum(v)]
     ELSE IF v.t = "text" THEN [nan |-> TRUE, n |-> 0]
     ELSE [nan |-> FALSE,
           n |-> Income(h, b) * (IF v.t = "null" THEN 0 ELSE v.n)]

\* the object whose entries are added up: index.js parses a string with
\* parseJSONsafe ({} when it is not JSON); in part_000 the entries of a
\* string are its characters, none under the id of a business; nothing is {}
EntriesOf(h, form, biz) ==
  IF form = "object" \/ (form = "json" /\ h = "bot_mine")
    THEN biz
    ELSE [k \in BusinessKeysSent |-> [t |-> "absent", n |-> 0]]

\* calculatePassiveIncome(businesses) on any argument: total, or NaN once an
\* entry added NaN
PassiveIncomeOf(h, form, biz) ==
  LET obj == EntriesOf(h, form, biz)
      RECURSIVE Sum(_)
      Sum(S) == IF S = {} THEN 0
                ELSE LET k == CHOOSE x \in S : TRUE
                     IN EntryIncome(h, k, obj[k]).n + Sum(S \ {k})
  IN [nan |-> \E k \in BusinessKeysSent : EntryIncome(h, k, obj[k]).nan,
      total |-> Sum(BusinessKeysSent)]

Rewarded(c) ==
  /\ Finished(c)
  /\ req[c].h \in {"reward_referrer", "manual_refer_by_id"}
  /\ req[c].out \in {"rewarded", "success"}

\* What a starting call notes of the ledger and of the calls before it.  These
\* fields (and fault: the store or the network failed during the call) are
\* history only, no handler reads them: first (no call of this
\* handler for this pair was started before), seq (every earlier call has
\* finished), prior (seq, and an earlier call for the pair was rewarded), rex
\* and dex (the referrer, the other user, has a row when the call starts).
StartRecord(h, pc, r, d) ==
  [h |-> h, pc |-> pc, r |-> r, d |-> d, out |-> "none",
   eff |-> NULL, seen |-> NoneSeen, bonus |-> "none", fault |-> FALSE,
   rpc |-> "none", buy |-> NoPurchase, gain |-> 0, inc |-> NoIncome,
   conn |-> NoConnect, upd |-> NoUpdate, credit |-> 0, note |-> "none", bc |-> NoBroadcast,
   first |-> \A q \in Calls : ~(Started(q) /\ req[q].h = h
                                  /\ req[q].r = r /\ req[q].d = d),
   seq |-> \A q \in Calls : Started(q) => Finished(q),
   prior |-> /\ \A q \in Calls : Started(q) => Finished(q)
             /\ \E q \in Calls : Rewarded(q) /\ req[q].h = h
                                   /\ req[q].r = r /\ req[q].d = d,
   rex |-> IF r \in Ids THEN users[r].ex ELSE FALSE,
   dex |-> IF d \in Ids THEN users[d].ex ELSE FALSE]

Finish(c, outcome) ==
  req' = [req EXCEPT ![c].pc = "done", ![c].out = outcome]

Goto(c, label) ==
  req' = [req EXCEPT ![c].pc = label]

(* ------------------- part_001: reward_referrer ------------------------- *)

StartRewardReferrer(c) ==
  /\ MayStart(c)
  /\ \E r \in Ids, d \in Ids :
       req' = [req EXCEPT ![c] = StartRecord("reward_referrer", "rr_insert", r, d)]
  /\ UNCHANGED <<users, referral_rewards, referrals, transactions,
                 variable_conflict, pool, ADMIN_ID, limit, business_totals>>

\* insert into referral_rewards(referrer_id, referred_user_id): both columns
\* reference users(id); the primary key is the pair
RewardReferrerInsert(c) ==
  /\ req[c].pc = "rr_insert"
  /\ ~RewardInsertPending(c, req[c].r, req[c].d)
  /\ IF <<req[c].r, req[c].d>> \in referral_rewards
       THEN Goto(c, "rr_query")                       \* unique_violation, caught
       ELSE IF ~(users[req[c].r].ex /\ users[req[c].d].ex)
         THEN Finish(c, "error_fk")                   \* foreign_key_violation
         ELSE Goto(c, "rr_update")
  /\ UNCHANGED <<users, referral_rewards, referrals, transactions,
                 variable_conflict, pool, ADMIN_ID, limit, business_totals>>

\* the update ... returning ... into of the v_inserted branch, and the commit
\* of the call.  referrals_count and coins are OUT columns of the function and
\* columns of users: with plpgsql.variable_conflict = error the statement
\* raises "column reference is ambiguous" and the call aborts.
RewardReferrerUpdate(c) ==
  /\ req[c].pc = "rr_update"
  /\ IF variable_conflict = "error"
       THEN /\ Finish(c, "error_ambiguous")
            /\ UNCHANGED <<users, referral_rewards>>
       ELSE IF users[req[c].r].ex
         THEN /\ users' = [users EXCEPT
                    ![req[c].r].rc = @ + 1,
                    ![req[c].r].coins = @ + REFERRAL_BONUS]
              /\ referral_rewards' = referral_rewards \cup {<<req[c].r, req[c].d>>}
              /\ Finish(c, "rewarded")
         ELSE \* referrer missing: the reward record is deleted again
              /\ Finish(c, "not_rewarded")
              /\ UNCHANGED <<users, referral_rewards>>
  /\ UNCHANGED <<referrals, transactions, variable_conflict, pool, ADMIN_ID, limit, business_totals>>

\* return query select id, coalesce(referrals_count,0), ... , false
RewardReferrerQuery(c) ==
  /\ req[c].pc = "rr_query"
  /\ IF variable_conflict = "error"
       THEN Finish(c, "error_ambiguous")
       ELSE Finish(c, "not_rewarded")
  /\ UNCHANGED <<users, referral_rewards, referrals, transactions,
                 variable_conflict, pool, ADMIN_ID, limit, business_totals>>

(* ------------------ schema.sql: manual_refer_by_id --------------------- *)

StartManualRefer(c) ==
  /\ MayStart(c)
  /\ \E r \in Ids, d \in Ids :
       req' = [req EXCEPT ![c] = StartRecord("manual_refer_by_id", "mr_exists", r, d)]
  /\ UNCHANGED <<users, referral_rewards, referrals, transactions,
                 variable_conflict, pool, ADMIN_ID, limit, business_totals>>

\* if exists (select 1 from public.users where id = referred_id)
ManualReferExists(c) ==
  /\ req[c].pc = "mr_exists"
  /\ IF users[req[c].d].ex
       THEN Finish(c, "already_user")
       ELSE Goto(c, "mr_insert")
  /\ UNCHANGED <<users, referral_rewards, referrals, transactions,
                 variable_conflict, pool, ADMIN_ID, limit, business_totals>>

\* insert into public.users (... referred_by ...) values (... referrer_id ...)
ManualReferInsert(c) ==
  /\ req[c].pc = "mr_insert"
  /\ ~UserInsertPending(c, req[c].d)
  /\ IF users[req[c].d].ex
       THEN Finish(c, "error_unique")                 \* users_pkey
       ELSE IF ~no_self_referral(req[c].d, req[c].r)
         THEN Finish(c, "error_check")                \* no_self_referral
         ELSE Goto(c, "mr_update")
  /\ UNCHANGED <<users, referral_rewards, referrals, transactions,
                 variable_conflict, pool, ADMIN_ID, limit, business_totals>>

\* update public.users set coins = coins + 100, referrals_count = ... + 1
\* where id = referrer_id; return success; the call commits
ManualReferUpdate(c) ==
  /\ req[c].pc = "mr_update"
  /\ ~RowLocked(c, req[c].r)
  /\ users' = CreditReferrer(
                [users EXCEPT ![req[c].d] = NewUserRow(req[c].r)], req[c].r)
  /\ Finish(c, "success")
  /\ UNCHANGED <<referral_rewards, referrals, transactions,
                 variable_conflict, pool, ADMIN_ID, limit, business_totals>>

(* ------------------- schema.sql: purchase_business --------------------- *)

\* public.businesses (name, cost): every seeded business costs 1000
CatalogCost(b) == 1000

\* BUSINESSES[].cost of index.js: DAPP 1000, APPLE 200000 (part_000: 1000 each)
BusinessCost(b) == IF b = "APPLE" THEN 200000 ELSE 1000

\* cost bigint := p_qty * 1000
UNIT_COST == 1000

PurchaseCost(qty) == qty * UNIT_COST

\* p_qty int: the largest value of the type
INT4_MAX == 2147483647

\* p_qty * 1000 is a product of two int values: outside the type it raises
\* "integer out of range"
Int4MulOverflows(qty) ==
  \/ qty > INT4_MAX \div UNIT_COST
  \/ qty < 0 - (INT4_MAX \div UNIT_COST)

\* the quantities p_qty of the calls
Quantities == {0 - 3000000, 0, 1, 2, 3000000}

\* the row after update users set coins = coins - cost, businesses =
\* jsonb_set(businesses, array[p_business], to_jsonb(cur_qty + p_qty), true):
\* jsonb_set is strict, a null businesses stays null
PurchasedRow(row, business, qty) ==
  [row EXCEPT !.coins = @ - PurchaseCost(qty),
              !.biz = IF row.bnull THEN @
                      ELSE [@ EXCEPT ![business] = @ + qty]]

\* the keys of a businesses object in jsonb order (shorter keys first), as
\* jsonb_each_text returns them to the loop of update_business_totals_row
BusinessKeys(row) ==
  IF row.bnull THEN <<>>
  ELSE (IF row.biz["FOO"] > 0 THEN <<"FOO">> ELSE <<>>)
       \o (IF row.biz["DAPP"] > 0 THEN <<"DAPP">> ELSE <<>>)
       \o (IF row.biz["APPLE"] > 0 THEN <<"APPLE">> ELSE <<>>)

\* select coalesce(sum((u.businesses ->> k)::bigint), 0) from users u where
\* u.businesses ? k, as a statement of the transaction that holds the
\* uncommitted row own of user id sees it: the committed rows of the others
SumOwned(u, id, own, k) ==
  LET RECURSIVE Sum(_)
      Sum(S) == IF S = {} THEN 0
                ELSE LET i == CHOOSE x \in S : TRUE
                     IN (IF i = id THEN own.biz[k]
                         ELSE IF u[i].ex /\ ~u[i].bnull THEN u[i].biz[k] ELSE 0)
                        + Sum(S \ {i})
  IN Sum(Ids)

\* purchase_business(p_user_id, p_business, p_qty)
StartPurchase(c) ==
  /\ MayStart(c)
  /\ \E d \in Ids, b \in BusinessNames, qty \in Quantities :
       req' = [req EXCEPT ![c] =
                 [StartRecord("purchase_business", "pb_validate", NULL, d)
                    EXCEPT !.buy.business = b, !.buy.qty = qty]]
  /\ UNCHANGED <<users, referral_rewards, referrals, transactions,
                 variable_conflict, pool, ADMIN_ID, limit, business_totals>>

\* declare cost bigint := p_qty * 1000, evaluated on entry of the block;
\* begin if p_qty <= 0 then return invalid_qty
PurchaseValidate(c) ==
  /\ req[c].pc = "pb_validate"
  /\ IF Int4MulOverflows(req[c].buy.qty)
       THEN Finish(c, "error_out_of_range")
       ELSE IF req[c].buy.qty <= 0
         THEN Finish(c, "invalid_qty")
         ELSE Goto(c, "pb_select")
  /\ UNCHANGED <<users, referral_rewards, referrals, transactions,
                 variable_conflict, pool, ADMIN_ID, limit, business_totals>>

\* select ... into cur_qty ... for update (waits for the row lock, finds the
\* row or none); update ... where id = p_user_id and coins >= cost; if not
\* found then return insufficient_funds.  Otherwise the row trigger runs with
\* the new row; with businesses null it returns at once and the call commits.
PurchaseSelectUpdate(c) ==
  /\ req[c].pc = "pb_select"
  /\ ~RowLocked(c, req[c].d)
  /\ LET row == users[req[c].d]
         cost == PurchaseCost(req[c].buy.qty)
         new == PurchasedRow(row, req[c].buy.business, req[c].buy.qty)
         cur_qty == IF row.bnull THEN 0 ELSE row.biz[req[c].buy.business]
     IN IF ~row.ex \/ row.coins < cost
          THEN Finish(c, "insufficient_funds") /\ UNCHANGED users
          ELSE IF BusinessKeys(new) = <<>>
            THEN /\ users' = [users EXCEPT ![req[c].d] = new]
                 /\ req' = [req EXCEPT ![c].pc = "done", ![c].out = "success",
                              ![c].buy.owned = cur_qty + req[c].buy.qty]
            ELSE /\ UNCHANGED users
                 /\ req' = [req EXCEPT ![c].pc = "pb_trigger",
                              ![c].buy.owned = cur_qty + req[c].buy.qty,
                              ![c].buy.keys = BusinessKeys(new)]
  /\ UNCHANGED <<referral_rewards, referrals, transactions,
                 variable_conflict, pool, ADMIN_ID, limit, business_totals>>

\* update_business_totals_row, one turn of the loop: the statement insert
\* into business_totals ... on conflict (name) do update set total_qty =
\* (select sum ...) starts and reads users as committed now
TriggerStatement(c) ==
  /\ req[c].pc = "pb_trigger"
  /\ LET new == PurchasedRow(users[req[c].d], req[c].buy.business, req[c].buy.qty)
     IN req' = [req EXCEPT ![c].pc = "pb_totals",
                  ![c].buy.sum = SumOwned(users, req[c].d, new, Head(req[c].buy.keys))]
  /\ UNCHANGED <<users, referral_rewards, referrals, transactions,
                 variable_conflict, pool, ADMIN_ID, limit, business_totals>>

\* business_totals with the rows a transaction has written
WithWritten(totals, written) ==
  [k \in BusinessNames |->
     IF \E w \in written : w.name = k
       THEN LET w == CHOOSE x \in written : x.name = k
            IN [ex |-> TRUE, total_qty |-> w.sum,
                total_invested |-> w.sum * UNIT_COST]
       ELSE totals[k]]

\* the statement waits for the business_totals row of the key: a row that is
\* there (every name of public.businesses is seeded) is the conflict branch
\* and gets the sums the statement computed; without one the values (k, v,
\* v * 1000) of the new users row are inserted; after the last key the
\* function returns success and the transaction commits
TriggerWrite(c) ==
  /\ req[c].pc = "pb_totals"
  /\ ~TotalsLocked(c, Head(req[c].buy.keys))
  /\ LET k == Head(req[c].buy.keys)
         written == {w \in req[c].buy.written : w.name # k}
                      \cup {[name |-> k,
                             sum |-> IF business_totals[k].ex
                                       THEN req[c].buy.sum
                                       ELSE PurchasedRow(users[req[c].d],
                                              req[c].buy.business,
                                              req[c].buy.qty).biz[k]]}
     IN IF Tail(req[c].buy.keys) # <<>>
          THEN /\ req' = [req EXCEPT ![c].pc = "pb_trigger",
                            ![c].buy.keys = Tail(@),
                            ![c].buy.written = written]
               /\ UNCHANGED <<users, business_totals>>
          ELSE /\ users' = [users EXCEPT ![req[c].d] =
                             PurchasedRow(@, req[c].buy.business, req[c].buy.qty)]
               /\ business_totals' = WithWritten(business_totals, written)
               /\ req' = [req EXCEPT ![c].pc = "done", ![c].out = "success",
                            ![c].buy.keys = <<>>, ![c].buy.written = {}]
  /\ UNCHANGED <<referral_rewards, referrals, transactions,
                 variable_conflict, pool, ADMIN_ID, limit>>

(* ------------- part_000: applyReferralBonus and its callers ------------ *)

\* the answer of a handler that ran applyReferralBonus: both callers only log
\* the result
FinishBonus(c, how, failed) ==
  req' = [req EXCEPT ![c].pc = "done", ![c].bonus = how,
                     ![c].fault = @ \/ failed,
                     ![c].out = IF req[c].h = "webhook" THEN "200_ok"
                                ELSE "200_created"]

\* select id, referrals_count, coins from users where id = referrerId
ApplyBonusSelect(c) ==
  /\ req[c].pc = "arb_select"
  /\ IF ~users[req[c].eff].ex
       THEN FinishBonus(c, "referrer-not-found", FALSE)
       ELSE req' = [req EXCEPT ![c].pc = "arb_rpc",
                      ![c].seen = [coins |-> users[req[c].eff].coins,
                                   rc |-> users[req[c].eff].rc,
                                   passive |-> 0]]
  /\ UNCHANGED <<users, referral_rewards, referrals, transactions,
                 variable_conflict, pool, ADMIN_ID, limit, business_totals>>

\* await supabase.rpc('increment_referral_bonus', { ref_id }) inside try: the
\* function (part_002) credits the referrer in one statement.  The client
\* resolves with { error } when the store rejects the call (the function is
\* optional), and the result is not looked at; it throws only when the request
\* itself fails, before or after the store applied it.
ApplyBonusRpc(c) ==
  /\ req[c].pc = "arb_rpc"
  /\ \E res \in {"applied", "error_result", "throw", "throw_applied"} :
       /\ users' = IF res \in {"applied", "throw_applied"}
                     THEN CreditReferrer(users, req[c].eff)
                     ELSE users
       /\ IF res \in {"applied", "error_result"}
            THEN FinishBonus(c, "rpc", res # "applied")
            ELSE req' = [req EXCEPT ![c].pc = "arb_fallback", ![c].fault = TRUE]
  /\ UNCHANGED <<referral_rewards, referrals, transactions,
                 variable_conflict, pool, ADMIN_ID, limit, business_totals>>

\* the fallback: update users set referrals_count = newCount, coins = newCoins
\* where id = referrerId, both computed from the row read by the select
ApplyBonusFallback(c) ==
  /\ req[c].pc = "arb_fallback"
  /\ users' = IF users[req[c].eff].ex
                 THEN [users EXCEPT ![req[c].eff].rc = req[c].seen.rc + 1,
                                    ![req[c].eff].coins = req[c].seen.coins + 100]
                 ELSE users
  /\ FinishBonus(c, "fallback-update", FALSE)
  /\ UNCHANGED <<referral_rewards, referrals, transactions,
                 variable_conflict, pool, ADMIN_ID, limit, business_totals>>

\* the payload's referredBy stored as sent, without the comparison with id
SafeReferredBy_AsSent(id, referredBy) == referredBy

\* referredBy && referredBy.toString() !== id.toString() ? referredBy : null
\* (the webhook: referrerId === tgId -> null)
SafeReferredBy(id, referredBy) ==
  IF referredBy # NULL /\ referredBy # id THEN referredBy ELSE NULL

\* POST /api/user { id, username, referredBy? }
StartApiUser(c) ==
  /\ MayStart(c)
  /\ \E d \in Ids, r \in Ids \cup {NULL} :
       req' = [req EXCEPT ![c] = StartRecord("api_user", "au_select", r, d)]
  /\ UNCHANGED <<users, referral_rewards, referrals, transactions,
                 variable_conflict, pool, ADMIN_ID, limit, business_totals>>

\* select * from users where id = id; an existing user is returned as it is
ApiUserSelect(c) ==
  /\ req[c].pc = "au_select"
  /\ IF users[req[c].d].ex
       THEN Finish(c, "200_existing")
       ELSE req' = [req EXCEPT ![c].pc = "au_insert",
                      ![c].eff = SafeReferredBy(req[c].d, req[c].r)]
  /\ UNCHANGED <<users, referral_rewards, referrals, transactions,
                 variable_conflict, pool, ADMIN_ID, limit, business_totals>>

\* insert([insertPayload]).select().single(); insertErr -> 500; then the
\* referrer is credited if safeReferredBy is set
ApiUserInsert(c) ==
  /\ req[c].pc = "au_insert"
  /\ ~UserInsertPending(c, req[c].d)
  /\ IF users[req[c].d].ex
       THEN Finish(c, "500") /\ UNCHANGED users
       ELSE /\ users' = [users EXCEPT ![req[c].d] = NewUserRow(req[c].eff)]
            /\ IF req[c].eff # NULL
                 THEN Goto(c, "arb_select")
                 ELSE Finish(c, "200_created")
  /\ UNCHANGED <<referral_rewards, referrals, transactions,
                 variable_conflict, pool, ADMIN_ID, limit, business_totals>>

\* POST /telegram/webhook: a message "/start" or "/start ref_<r>" from tgId d
StartWebhook(c) ==
  /\ MayStart(c)
  /\ \E d \in Ids, r \in Ids \cup {NULL} :
       req' = [req EXCEPT ![c] = StartRecord("webhook", "wh_select", r, d)]
  /\ UNCHANGED <<users, referral_rewards, referrals, transactions,
                 variable_conflict, pool, ADMIN_ID, limit, business_totals>>

\* the handler without the look-up of the sender: every /start is a sign-up
WebhookSelect_NoLookup(c) ==
  /\ req[c].pc = "wh_select"
  /\ req' = [req EXCEPT ![c].pc = "wh_insert",
                        ![c].eff = SafeReferredBy(req[c].d, req[c].r)]
  /\ UNCHANGED <<users, referral_rewards, referrals, transactions,
                 variable_conflict, pool, ADMIN_ID, limit, business_totals>>

\* select id from users where id = tgId
WebhookSelect(c) ==
  /\ req[c].pc = "wh_select"
  /\ IF users[req[c].d].ex
       THEN Finish(c, "200_ok")
       ELSE req' = [req EXCEPT ![c].pc = "wh_insert",
                      ![c].eff = SafeReferredBy(req[c].d, req[c].r)]
  /\ UNCHANGED <<users, referral_rewards, referrals, transactions,
                 variable_conflict, pool, ADMIN_ID, limit, business_totals>>

\* the insert without the referred_by column of the payload
WebhookInsert_NoReferredBy(c) ==
  /\ req[c].pc = "wh_insert"
  /\ ~UserInsertPending(c, req[c].d)
  /\ users' = IF users[req[c].d].ex
                 THEN users
                 ELSE [users EXCEPT ![req[c].d] = NewUserRow(NULL)]
  /\ IF req[c].eff # NULL
       THEN Goto(c, "arb_select")
       ELSE Finish(c, "200_ok")
  /\ UNCHANGED <<referral_rewards, referrals, transactions,
                 variable_conflict, pool, ADMIN_ID, limit, business_totals>>

\* await supabase.from('users').insert([insertPayload]) inside try: a
\* duplicate key resolves with { error }, which is not looked at; then the
\* referrer is credited if referrerId is set
WebhookInsert(c) ==
  /\ req[c].pc = "wh_insert"
  /\ ~UserInsertPending(c, req[c].d)
  /\ users' = IF users[req[c].d].ex
                 THEN users
                 ELSE [users EXCEPT ![req[c].d] = NewUserRow(req[c].eff)]
  /\ IF req[c].eff # NULL
       THEN Goto(c, "arb_select")
       ELSE Finish(c, "200_ok")
  /\ UNCHANGED <<referral_rewards, referrals, transactions,
                 variable_conflict, pool, ADMIN_ID, limit, business_totals>>

(* ------------- POST /api/user/update and POST /api/mine ---------------- *)

\* if (!id) return 400; if (Object.keys(updatePayload).length === 0) return 400
UpdateRejected(id, payload) ==
  \/ id = NULL
  \/ ~(payload.setCoins \/ payload.nullBusinesses \/ payload.zeroLastMine)

ApplyUpdate_WholeRow(u, id, payload) ==
  IF ~u[id].ex THEN u
  ELSE [u EXCEPT ![id].coins = IF payload.setCoins THEN payload.coins ELSE @,
                 ![id].bnull = IF payload.nullBusinesses THEN TRUE ELSE @,
                 ![id].biz = IF payload.nullBusinesses THEN NoBusinesses ELSE @,
                 ![id].last_mine = IF payload.zeroLastMine THEN "elapsed" ELSE @,
                 ![id].rc = 0,
                 ![id].rb = NULL]

\* update(updatePayload).eq('id', id): the fields of the body go into the row
\* as they are; no row, no change
ApplyUpdate(u, id, payload) ==
  IF ~u[id].ex THEN u
  ELSE [u EXCEPT ![id].coins = IF payload.setCoins THEN payload.coins ELSE @,
                 ![id].bnull = IF payload.nullBusinesses THEN TRUE ELSE @,
                 ![id].biz = IF payload.nullBusinesses THEN NoBusinesses ELSE @,
                 ![id].last_mine = IF payload.zeroLastMine THEN "elapsed" ELSE @]

\* POST /api/user/update { id, coins?, businesses?, ... }; a body without id
\* or without any updatable field is answered 400 before the database is
\* used; the update waits for a row lock
UpdateUser(c) ==
  /\ MayStart(c)
  /\ \E d \in Ids \cup {NULL}, payload \in UpdatePayloads :
       IF UpdateRejected(d, payload)
       THEN /\ req' = [req EXCEPT ![c] =
                         [StartRecord("update", "done", NULL, d)
                            EXCEPT !.out = "400", !.upd = payload]]
            /\ users' = users
       ELSE /\ ~RowLocked(c, d)
            /\ req' = [req EXCEPT ![c] =
                         [StartRecord("update", "done", NULL, d)
                            EXCEPT !.out = "200_ok", !.upd = payload]]
            /\ users' = ApplyUpdate(users, d, payload)
  /\ UNCHANGED <<referral_rewards, referrals, transactions,
                 variable_conflict, pool, ADMIN_ID, limit, business_totals>>

\* POST /api/mine { id }
StartMine(c) ==
  /\ MayStart(c)
  /\ \E d \in Ids :
       req' = [req EXCEPT ![c] = StartRecord("mine", "mine_select", NULL, d)]
  /\ UNCHANGED <<users, referral_rewards, referrals, transactions,
                 variable_conflict, pool, ADMIN_ID, limit, business_totals>>

\* select * from users where id = id; 404 without a row; 429 when
\* Date.now() - data.last_mine < MINE_COOLDOWN_MS
MineSelect(c) ==
  /\ req[c].pc = "mine_select"
  /\ IF ~users[req[c].d].ex
       THEN Finish(c, "404")
       ELSE IF users[req[c].d].last_mine = "recent"
                THEN Finish(c, "429")
                ELSE req' = [req EXCEPT ![c].pc = "mine_update",
                               ![c].seen =
                                 [coins |-> users[req[c].d].coins,
                                  rc |-> users[req[c].d].rc,
                                  passive |-> calculatePassiveIncome(
                                                req[c].h, users[req[c].d])]]
  /\ UNCHANGED <<users, referral_rewards, referrals, transactions,
                 variable_conflict, pool, ADMIN_ID, limit, business_totals>>

\* newCoins = data.coins + earned + passive; update({ coins: newCoins,
\* last_mine: now }).eq('id', id); earned is 2 or 3, passive the income of the
\* businesses of the row that was read; the update waits for a row lock
MineUpdate(c) ==
  /\ req[c].pc = "mine_update"
  /\ ~RowLocked(c, req[c].d)
  /\ \E earned \in {2, 3} :
       /\ users' = [users EXCEPT
                      ![req[c].d].coins =
                        req[c].seen.coins + earned + req[c].seen.passive,
                      ![req[c].d].last_mine =
                        IF users[req[c].d].ex THEN "recent" ELSE @]
       /\ req' = [req EXCEPT ![c].pc = "done", ![c].out = "200_ok",
                             ![c].gain = earned + req[c].seen.passive]
  /\ UNCHANGED <<referral_rewards, referrals, transactions,
                 variable_conflict, pool, ADMIN_ID, limit, business_totals>>

\* MINE_COOLDOWN_MS pass after the last_mine of a row: the comparison of
\* POST /api/mine no longer holds for it
CooldownElapses ==
  /\ \E d \in Ids :
       /\ users[d].ex
       /\ users[d].last_mine = "recent"
       /\ users' = [users EXCEPT ![d].last_mine = "elapsed"]
  /\ UNCHANGED <<referral_rewards, referrals, transactions, req,
                 variable_conflict, pool, ADMIN_ID, limit, business_totals>>

(* ------------------- index.js: POST /api/user -------------------------- *)

StartApiUserUpsert(c) ==
  /\ MayStart(c)
  /\ \E d \in Ids :
       req' = [req EXCEPT ![c] = StartRecord("api_user_upsert", "iu_select", NULL, d)]
  /\ UNCHANGED <<users, referral_rewards, referrals, transactions,
                 variable_conflict, pool, ADMIN_ID, limit, business_totals>>

\* select * from users where id = id; if (existing) return it
ApiUserUpsertSelect(c) ==
  /\ req[c].pc = "iu_select"
  /\ IF users[req[c].d].ex
       THEN Finish(c, "200_existing")
       ELSE Goto(c, "iu_upsert")
  /\ UNCHANGED <<users, referral_rewards, referrals, transactions,
                 variable_conflict, pool, ADMIN_ID, limit, business_totals>>

\* upsert(newUser, { onConflict: 'id' }): insert ... on conflict (id) do update
\* set every column of the payload: coins 100, referrals_count 0,
\* referred_by null, ...
UpsertNewUser(u, id) ==
  [u EXCEPT ![id] = NewUserRow(NULL)]

ApiUserUpsert(c) ==
  /\ req[c].pc = "iu_upsert"
  /\ ~UserInsertPending(c, req[c].d)
  /\ users' = UpsertNewUser(users, req[c].d)
  /\ Finish(c, "200_created")
  /\ UNCHANGED <<referral_rewards, referrals, transactions,
                 variable_conflict, pool, ADMIN_ID, limit, business_totals>>

(* ------------- index.js: the Telegram message handler ------------------ *)

\* record_and_reward_referral(p_referrer, p_referred): called through
\* supabase.rpc, defined in no file of src/.  After the protocol of the
\* specification (4.1): the pair is recorded once in referrals, and only the
\* call that records it credits the referrer; an unknown referrer, a pair
\* already recorded or p_referrer = p_referred change nothing.
RecordAndRewardApplies(u, refs, r, d) ==
  /\ r # d
  /\ u[r].ex
  /\ <<r, d>> \notin refs

\* One supabase.rpc('record_and_reward_referral') round trip of call c for
\* the pair (r, d), leaving rpc = "ok" (data, no error) or "err" (an error
\* result or an exception; the handler treats both alike).  The store applies
\* the function or not; the answer of an applied call can be lost; what an
\* applied call that rewards nothing answers is not known: either.
RecordAndRewardRpc(c, r, d, next, note) ==
  \E res \in {"applied", "applied_lost", "not_applied"}, rpc \in {"ok", "err"} :
    LET rewards == res # "not_applied"
                   /\ RecordAndRewardApplies(users, referrals, r, d)
    IN /\ res # "applied" => rpc = "err"
       /\ res = "applied" /\ rewards => rpc = "ok"
       /\ users' = IF rewards THEN CreditReferrer(users, r) ELSE users
       /\ referrals' = IF rewards THEN referrals \cup {<<r, d>>} ELSE referrals
       /\ req' = [req EXCEPT ![c].pc = next, ![c].rpc = rpc,
                             ![c].fault = @ \/ res # "applied",
                             ![c].credit = IF rewards THEN @ + REFERRAL_BONUS ELSE @,
                             ![c].note = note]

\* bot.on("message"): a message from chat d, "/start ref_<r>" or any other
\* text (r = NULL); the referral flow needs inviterId !== String(chatId)
StartMessage(c) ==
  /\ MayStart(c)
  /\ \E d \in Ids, r \in Ids \cup {NULL} :
       req' = [req EXCEPT ![c] =
                 StartRecord("message",
                             IF r # NULL /\ r # d THEN "msg_exists" ELSE "ens",
                             r, d)]
  /\ UNCHANGED <<users, referral_rewards, referrals, transactions,
                 variable_conflict, pool, ADMIN_ID, limit, business_totals>>

\* SELECT id FROM users WHERE id = chatId (pool, else supabase): an existing
\* account gets no referral
MessageExists(c) ==
  /\ req[c].pc = "msg_exists"
  /\ IF users[req[c].d].ex
       THEN req' = [req EXCEPT ![c].pc = "ens", ![c].bonus = "already-account"]
       ELSE Goto(c, IF pool THEN "msg_pg_insert" ELSE "msg_sb_insert")
  /\ UNCHANGED <<users, referral_rewards, referrals, transactions,
                 variable_conflict, pool, ADMIN_ID, limit, business_totals>>

\* BEGIN; INSERT INTO users (... referred_by ...) VALUES (... inviterId ...):
\* a duplicate key throws, the catch rolls back; the two bot.sendMessage
\* calls after the transaction block run all the same
MessagePgInsert(c) ==
  /\ req[c].pc = "msg_pg_insert"
  /\ ~UserInsertPending(c, req[c].d)
  /\ IF users[req[c].d].ex
       THEN req' = [req EXCEPT ![c].pc = "ens", ![c].bonus = "rolled-back",
                              ![c].note = "sent"]
       ELSE Goto(c, "msg_pg_rpc")
  /\ UNCHANGED <<users, referral_rewards, referrals, transactions,
                 variable_conflict, pool, ADMIN_ID, limit, business_totals>>

\* supabase.rpc('record_and_reward_referral', ...) while the transaction of
\* the pool client is open: the RPC runs on another connection and commits on
\* its own
MessagePgRpc(c) ==
  /\ req[c].pc = "msg_pg_rpc"
  /\ RecordAndRewardRpc(c, req[c].r, req[c].d, "msg_pg_commit", "none")
  /\ UNCHANGED <<referral_rewards, transactions, variable_conflict, pool, ADMIN_ID, limit, business_totals>>

\* on rpc error or exception: UPDATE users SET coins = coins + 100,
\* referrals_count = ... + 1 WHERE id = inviterId; then INSERT INTO
\* transactions; COMMIT.  A statement that fails throws: ROLLBACK, caught
\* inside the block.  Then bot.sendMessage(chatId, welcome) and
\* bot.sendMessage(inviterId, "... joined using your link! You earned 100
\* coins!")
MessagePgCommit(c) ==
  /\ req[c].pc = "msg_pg_commit"
  /\ \E ok \in BOOLEAN :
       IF ok
         THEN /\ users' =
                   LET created == [users EXCEPT ![req[c].d] = NewUserRow(req[c].r)]
                   IN IF req[c].rpc = "err"
                        THEN CreditReferrer(created, req[c].r)
                        ELSE created
              /\ transactions' =
                   [transactions EXCEPT ![<<req[c].r, req[c].d>>] = @ + 1]
              /\ req' = [req EXCEPT
                           ![c].pc = "ens", ![c].bonus = "committed",
                           ![c].credit =
                             IF req[c].rpc = "err" /\ users[req[c].r].ex
                               THEN @ + REFERRAL_BONUS ELSE @,
                           ![c].note = "sent"]
         ELSE /\ UNCHANGED <<users, transactions>>
              /\ req' = [req EXCEPT ![c].pc = "ens", ![c].bonus = "rolled-back",
                                    ![c].fault = TRUE, ![c].note = "sent"]
  /\ UNCHANGED <<referral_rewards, referrals, variable_conflict, pool, ADMIN_ID, limit, business_totals>>

\* no pool: await supabase.from('users').insert([...]); a duplicate key
\* resolves with { error }, which is not looked at
MessageSbInsert(c) ==
  /\ req[c].pc = "msg_sb_insert"
  /\ ~UserInsertPending(c, req[c].d)
  /\ users' = IF users[req[c].d].ex
                 THEN users
                 ELSE [users EXCEPT ![req[c].d] = NewUserRow(req[c].r)]
  /\ Goto(c, "msg_sb_rpc")
  /\ UNCHANGED <<referral_rewards, referrals, transactions,
                 variable_conflict, pool, ADMIN_ID, limit, business_totals>>

\* no pool: supabase.rpc('record_and_reward_referral', ...); an error is
\* logged; then the two bot.sendMessage calls
MessageSbRpc(c) ==
  /\ req[c].pc = "msg_sb_rpc"
  /\ RecordAndRewardRpc(c, req[c].r, req[c].d, "ens", "sent")
  /\ UNCHANGED <<referral_rewards, transactions, variable_conflict, pool, ADMIN_ID, limit, business_totals>>

\* ensureUserTelegram without a pool: upsert({ id, username, coins: 100 },
\* { onConflict: 'id' }): a new row takes the column defaults, an existing
\* row gets username and coins overwritten
EnsureUpsert(u, id) ==
  IF u[id].ex
    THEN [u EXCEPT ![id].coins = 100]
    ELSE [u EXCEPT ![id] = NewUserRow(NULL)]

\* ensureUserTelegram(chatId, username), run for every message: with a pool,
\* SELECT id FROM users WHERE id = $1 and an INSERT if there is no row
EnsureUser(c) ==
  /\ req[c].pc = "ens"
  /\ IF pool
       THEN /\ IF users[req[c].d].ex
                 THEN Finish(c, "handled")
                 ELSE Goto(c, "ens_insert")
            /\ UNCHANGED users
       ELSE /\ ~UserInsertPending(c, req[c].d)
            /\ users' = EnsureUpsert(users, req[c].d)
            /\ Finish(c, "handled")
  /\ UNCHANGED <<referral_rewards, referrals, transactions,
                 variable_conflict, pool, ADMIN_ID, limit, business_totals>>

\* INSERT INTO users (...) VALUES ($1,$2,100,...,NULL,0,...): a duplicate key
\* is caught and logged
EnsureInsert(c) ==
  /\ req[c].pc = "ens_insert"
  /\ ~UserInsertPending(c, req[c].d)
  /\ users' = IF users[req[c].d].ex
                 THEN users
                 ELSE [users EXCEPT ![req[c].d] = NewUserRow(NULL)]
  /\ Finish(c, "handled")
  /\ UNCHANGED <<referral_rewards, referrals, transactions,
                 variable_conflict, pool, ADMIN_ID, limit, business_totals>>

\* POST /api/user/update and POST /api/mine of index.js: as in part_000
BotUpdateUser(c) ==
  /\ MayStart(c)
  /\ \E d \in Ids \cup {NULL}, payload \in UpdatePayloads :
       IF UpdateRejected(d, payload)
       THEN /\ req' = [req EXCEPT ![c] =
                         [StartRecord("update", "done", NULL, d)
                            EXCEPT !.out = "400", !.upd = payload]]
            /\ users' = users
       ELSE /\ ~RowLocked(c, d)
            /\ req' = [req EXCEPT ![c] =
                         [StartRecord("update", "done", NULL, d)
                            EXCEPT !.out = "200_ok", !.upd = payload]]
            /\ users' = ApplyUpdate(users, d, payload)
  /\ UNCHANGED <<referral_rewards, referrals, transactions,
                 variable_conflict, pool, ADMIN_ID, limit, business_totals>>

BotStartMine(c) ==
  /\ MayStart(c)
  /\ \E d \in Ids :
       req' = [req EXCEPT ![c] = StartRecord("bot_mine", "mine_select", NULL, d)]
  /\ UNCHANGED <<users, referral_rewards, referrals, transactions,
                 variable_conflict, pool, ADMIN_ID, limit, business_totals>>

(* ----------------- calculatePassiveIncome, called alone ----------------- *)

\* calculatePassiveIncome(businesses) of part_000 or of index.js is called
StartIncome(c) ==
  /\ MayStart(c)
  /\ \E ver \in {"mine", "bot_mine"}, form \in ArgForms,
        biz \in [BusinessKeysSent -> QtyValues] :
       req' = [req EXCEPT ![c] =
                 [StartRecord("calculatePassiveIncome", "pi_call", NULL, NULL)
                    EXCEPT !.inc.ver = ver, !.inc.form = form, !.inc.biz = biz]]
  /\ UNCHANGED <<users, referral_rewards, referrals, transactions,
                 variable_conflict, pool, ADMIN_ID, limit, business_totals>>

\* the loop over the entries; return total
IncomeReturn(c) ==
  /\ req[c].pc = "pi_call"
  /\ LET res == PassiveIncomeOf(req[c].inc.ver, req[c].inc.form, req[c].inc.biz)
     IN req' = [req EXCEPT ![c].pc = "done", ![c].out = "returned",
                           ![c].inc.nan = res.nan, ![c].inc.total = res.total]
  /\ UNCHANGED <<users, referral_rewards, referrals, transactions,
                 variable_conflict, pool, ADMIN_ID, limit, business_totals>>

(* ------------------ index.js: createPoolWithRetry ---------------------- *)

\* pool = await createPoolWithRetry(effective, attempts, delay) in the async
\* function index.js runs when it is loaded, before any request is handled;
\* let i = 1; i <= attempts
StartCreatePool(c) ==
  /\ MayStart(c)
  /\ c = 1
  /\ \E attempts \in 0..MaxAttempts :
       req' = [req EXCEPT ![c] =
                 [StartRecord("createPoolWithRetry",
                              IF 1 <= attempts THEN "cp_connect" ELSE "cp_after",
                              NULL, NULL)
                    EXCEPT !.conn.attempts = attempts, !.conn.i = 1]]
  /\ UNCHANGED <<users, referral_rewards, referrals, transactions,
                 variable_conflict, pool, ADMIN_ID, limit, business_totals>>

\* the loop without if (i === attempts) throw err: it sleeps and tries again
PoolConnect_NoLastAttempt(c) ==
  /\ req[c].pc = "cp_connect"
  /\ \E connected \in BOOLEAN :
       IF connected
         THEN /\ pool' = TRUE
              /\ req' = [req EXCEPT ![c].pc = "done", ![c].out = "returned",
                                    ![c].conn.made = @ + 1]
         ELSE /\ pool' = pool
              /\ req' = [req EXCEPT ![c].pc = "cp_connect",
                                    ![c].conn.made = @ + 1,
                                    ![c].conn.lastErr = req[c].conn.i]
  /\ UNCHANGED <<users, referral_rewards, referrals, transactions,
                 variable_conflict, ADMIN_ID, limit, business_totals>>

\* new Pool(...); await pool.query("SELECT 1"): return pool, and the caller
\* assigns it; or catch: lastErr = err; if (i === attempts) throw err, and
\* the caller's catch sets pool = null; else sleep
PoolConnect(c) ==
  /\ req[c].pc = "cp_connect"
  /\ \E connected \in BOOLEAN :
       IF connected
         THEN /\ pool' = TRUE
              /\ req' = [req EXCEPT ![c].pc = "done", ![c].out = "returned",
                                    ![c].conn.made = @ + 1]
         ELSE IF req[c].conn.i = req[c].conn.attempts
           THEN /\ pool' = FALSE
                /\ req' = [req EXCEPT ![c].pc = "done", ![c].out = "threw",
                                      ![c].conn.made = @ + 1,
                                      ![c].conn.lastErr = req[c].conn.i]
           ELSE /\ pool' = pool
                /\ req' = [req EXCEPT ![c].pc = "cp_sleep",
                                      ![c].conn.made = @ + 1,
                                      ![c].conn.lastErr = req[c].conn.i]
  /\ UNCHANGED <<users, referral_rewards, referrals, transactions,
                 variable_conflict, ADMIN_ID, limit, business_totals>>

\* await sleep(delayMs); i++; i <= attempts
PoolSleep(c) ==
  /\ req[c].pc = "cp_sleep"
  /\ req' = [req EXCEPT ![c].conn.i = @ + 1,
                        ![c].pc = IF req[c].conn.i + 1 <= req[c].conn.attempts
                                    THEN "cp_connect" ELSE "cp_after"]
  /\ UNCHANGED <<users, referral_rewards, referrals, transactions,
                 variable_conflict, pool, ADMIN_ID, limit, business_totals>>

\* throw lastErr after the loop; the caller's catch sets pool = null
PoolAfterLoop(c) ==
  /\ req[c].pc = "cp_after"
  /\ pool' = FALSE
  /\ Finish(c, "threw")
  /\ UNCHANGED <<users, referral_rewards, referrals, transactions,
                 variable_conflict, ADMIN_ID, limit, business_totals>>

(* ------------------- index.js: callback_query -------------------------- *)

\* cb.data: a subscribe button or a broadcast confirmation
CallbackData == {"subscribe_yes", "bcast_send:", "bcast_all_send:"}

IsBroadcast(data) == data \in {"bcast_send:", "bcast_all_send:"}

Authorized_Anyone(from) == TRUE

\* the negation of !ADMIN_ID || String(chatIdFrom) !== String(ADMIN_ID);
\* ADMIN_ID = NULL is the unset environment variable
Authorized(from) == ADMIN_ID # NULL /\ from = ADMIN_ID

\* bot.on("callback_query"): subscribe_yes updates subscribed (a column the
\* rows here do not carry) for the sender and answers; a broadcast
\* confirmation is answered "Not authorized." unless the sender is ADMIN_ID,
\* else "Broadcast started." and the worker runs on its own
StartCallback(c) ==
  /\ MayStart(c)
  /\ \E from \in Ids, data \in CallbackData :
       /\ ~IsBroadcast(data) => ~RowLocked(c, from)
       /\ req' = [req EXCEPT ![c] =
                    [StartRecord("callback_query",
                                 IF IsBroadcast(data) /\ Authorized(from)
                                   THEN "bc_query" ELSE "done",
                                 NULL, from)
                       EXCEPT !.out = IF ~IsBroadcast(data) THEN "subscribed"
                                      ELSE IF Authorized(from) THEN "none"
                                      ELSE "not_authorized",
                              !.bc = [NoBroadcast EXCEPT !.data = data,
                                                         !.from = from]]]
  /\ UNCHANGED <<users, referral_rewards, referrals, transactions,
                 variable_conflict, pool, ADMIN_ID, limit, business_totals>>

\* the worker's query: with a pool SELECT id FROM users (all) or ... WHERE
\* subscribed = TRUE, and a query that throws ends in "Broadcast failed";
\* without a pool supabase.from('users').select('id').eq('subscribed', true)
\* for both kinds, an error giving no rows.  Which rows are subscribed is
\* not part of the state: any set of the rows there are
BroadcastQuery(c) ==
  /\ req[c].pc = "bc_query"
  /\ \E rows \in SUBSET {i \in Ids : users[i].ex}, throws \in BOOLEAN :
       /\ throws => pool /\ rows = {}
       /\ (pool /\ ~throws /\ req[c].bc.data = "bcast_all_send:")
            => rows = {i \in Ids : users[i].ex}
       /\ IF throws
            THEN Finish(c, "failed")
            ELSE req' = [req EXCEPT ![c].pc = "bc_loop",
                                    ![c].bc.rows = rows,
                                    ![c].bc.todo = rows]
  /\ UNCHANGED <<users, referral_rewards, referrals, transactions,
                 variable_conflict, pool, ADMIN_ID, limit, business_totals>>

\* one turn of for (const r of rows): bot.sendMessage(targetId, ...), sent++
\* unless it threw, sleep
BroadcastSend(c) ==
  /\ req[c].pc = "bc_loop"
  /\ \E target \in req[c].bc.todo, delivered \in BOOLEAN :
       req' = [req EXCEPT ![c].bc.todo = @ \ {target},
                          ![c].bc.tried[target] = @ + 1,
                          ![c].bc.sent = IF delivered THEN @ + 1 ELSE @]
  /\ UNCHANGED <<users, referral_rewards, referrals, transactions,
                 variable_conflict, pool, ADMIN_ID, limit, business_totals>>

\* after the loop: bot.sendMessage(ADMIN_ID, "Broadcast completed. Sent to
\* ${sent}/${rows.length} users")
BroadcastReport(c) ==
  /\ req[c].pc = "bc_loop"
  /\ req[c].bc.todo = {}
  /\ req' = [req EXCEPT ![c].pc = "done", ![c].out = "completed",
                        ![c].bc.report =
                          [sent |-> req[c].bc.sent,
                           total |-> Cardinality(req[c].bc.rows)]]
  /\ UNCHANGED <<users, referral_rewards, referrals, transactions,
                 variable_conflict, pool, ADMIN_ID, limit, business_totals>>

(* --------------------------- specifications ---------------------------- *)

\* "A" has an account (coins 100, referrals_count 0); nobody else has
InitUsers == [i \in Ids |-> IF i = "A" THEN NewUserRow(NULL) ELSE NoRow]

\* the empty referral tables and no call started
InitLedger ==
  /\ business_totals =
       [b \in BusinessNames |->
          [ex |-> b \in Businesses, total_qty |-> 0, total_invested |-> 0]]
  /\ referral_rewards = {}
  /\ referrals = {}
  /\ transactions = [p \in Pairs |-> 0]
  /\ req = [c \in Calls |-> Idle]

\* the SQL functions, called directly: "A" has an account, "B" may have one;
\* plpgsql.variable_conflict is the server's setting (error is the default)
InitSql ==
  /\ users \in {InitUsers, [InitUsers EXCEPT !["B"] = NewUserRow(NULL)]}
  /\ InitLedger
  /\ variable_conflict \in {"error", "use_column"}
  /\ pool = FALSE
  /\ ADMIN_ID = NULL
  /\ limit = SqlCalls

NextSql ==
  \E c \in Calls :
    \/ StartRewardReferrer(c)
    \/ RewardReferrerInsert(c)
    \/ RewardReferrerUpdate(c)
    \/ RewardReferrerQuery(c)
    \/ StartManualRefer(c)
    \/ ManualReferExists(c)
    \/ ManualReferInsert(c)
    \/ ManualReferUpdate(c)

SpecSql == InitSql /\ [][NextSql]_vars

\* the Express server of part_000 over the tables of part_002
InitWeb ==
  /\ users = InitUsers
  /\ InitLedger
  /\ variable_conflict = "error"
  /\ pool = FALSE
  /\ ADMIN_ID = NULL
  /\ limit = WebCalls

NextWeb ==
  \/ \E c \in Calls :
        \/ StartApiUser(c)
        \/ ApiUserSelect(c)
        \/ ApiUserInsert(c)
        \/ StartWebhook(c)
        \/ WebhookSelect(c)
        \/ WebhookInsert(c)
        \/ ApplyBonusSelect(c)
        \/ ApplyBonusRpc(c)
        \/ ApplyBonusFallback(c)
        \/ UpdateUser(c)
        \/ StartMine(c)
        \/ MineSelect(c)
        \/ MineUpdate(c)
  \/ CooldownElapses

SpecWeb == InitWeb /\ [][NextWeb]_vars

\* the server of index.js: the pool is there or startup left it null
InitBot ==
  /\ users = InitUsers
  /\ InitLedger
  /\ variable_conflict = "error"
  /\ pool \in BOOLEAN
  /\ ADMIN_ID = NULL
  /\ limit = BotCalls

NextBot ==
  \/ \E c \in Calls :
        \/ StartApiUserUpsert(c)
        \/ ApiUserUpsertSelect(c)
        \/ ApiUserUpsert(c)
        \/ StartMessage(c)
        \/ MessageExists(c)
        \/ MessagePgInsert(c)
        \/ MessagePgRpc(c)
        \/ MessagePgCommit(c)
        \/ MessageSbInsert(c)
        \/ MessageSbRpc(c)
        \/ EnsureUser(c)
        \/ EnsureInsert(c)
        \/ BotUpdateUser(c)
        \/ BotStartMine(c)
        \/ MineSelect(c)
        \/ MineUpdate(c)
  \/ CooldownElapses

SpecBot == InitBot /\ [][NextBot]_vars

\* index.js, account creation only: POST /api/user and Telegram messages
InitCreate ==
  /\ users = InitUsers
  /\ InitLedger
  /\ variable_conflict = "error"
  /\ pool \in BOOLEAN
  /\ ADMIN_ID = NULL
  /\ limit = CreateCalls

NextCreate ==
  \E c \in Calls :
    \/ StartApiUserUpsert(c)
    \/ ApiUserUpsertSelect(c)
    \/ ApiUserUpsert(c)
    \/ StartMessage(c)
    \/ MessageExists(c)
    \/ MessagePgInsert(c)
    \/ MessagePgRpc(c)
    \/ MessagePgCommit(c)
    \/ MessageSbInsert(c)
    \/ MessageSbRpc(c)
    \/ EnsureUser(c)
    \/ EnsureInsert(c)

SpecCreate == InitCreate /\ [][NextCreate]_vars

\* the store of schema.sql with the server of part_000: purchases, direct
\* referrals, updates and mining; "A" has 2000 coins, "C" 1000, no "B"
InitShopUsers ==
  [i \in Ids |-> IF i = "A" THEN [NewUserRow(NULL) EXCEPT !.coins = 2000]
                 ELSE IF i = "C" THEN [NewUserRow(NULL) EXCEPT !.coins = 1000]
                 ELSE NoRow]

InitShop ==
  /\ users = InitShopUsers
  /\ InitLedger
  /\ variable_conflict = "error"
  /\ pool = FALSE
  /\ ADMIN_ID = NULL
  /\ limit = ShopCalls

NextShop ==
  \/ \E c \in Calls :
        \/ StartPurchase(c)
        \/ PurchaseValidate(c)
        \/ PurchaseSelectUpdate(c)
        \/ TriggerStatement(c)
        \/ TriggerWrite(c)
        \/ StartManualRefer(c)
        \/ ManualReferExists(c)
        \/ ManualReferInsert(c)
        \/ ManualReferUpdate(c)
        \/ UpdateUser(c)
        \/ StartMine(c)
        \/ MineSelect(c)
        \/ MineUpdate(c)
  \/ CooldownElapses

SpecShop == InitShop /\ [][NextShop]_vars

\* calculatePassiveIncome of both servers on every argument over
\* BusinessKeysSent and QtyValues, beside the store of InitShop
InitIncome ==
  /\ users = InitShopUsers
  /\ InitLedger
  /\ variable_conflict = "error"
  /\ pool = FALSE
  /\ ADMIN_ID = NULL
  /\ limit = IncomeCalls

NextIncome ==
  \E c \in Calls :
    \/ StartIncome(c)
    \/ IncomeReturn(c)

SpecIncome == InitIncome /\ [][NextIncome]_vars

\* index.js from the moment it is loaded: the pool is null, the startup
\* connects (or there is no DATABASE_URL and it never starts) while Telegram
\* messages are handled
InitPool ==
  /\ users = InitUsers
  /\ InitLedger
  /\ variable_conflict = "error"
  /\ pool = FALSE
  /\ ADMIN_ID = NULL
  /\ limit = PoolCalls

\* a step of createPoolWithRetry: a connection attempt ends, a timer fires
PoolStep(c) ==
  \/ PoolConnect(c)
  \/ PoolSleep(c)
  \/ PoolAfterLoop(c)

NextPool ==
  \E c \in Calls :
    \/ StartCreatePool(c)
    \/ PoolStep(c)
    \/ StartMessage(c)
    \/ MessageExists(c)
    \/ MessagePgInsert(c)
    \/ MessagePgRpc(c)
    \/ MessagePgCommit(c)
    \/ MessageSbInsert(c)
    \/ MessageSbRpc(c)
    \/ EnsureUser(c)
    \/ EnsureInsert(c)

\* every await of createPoolWithRetry settles: a connection attempt succeeds
\* or fails, the timer of sleep fires
SpecPool ==
  InitPool /\ [][NextPool]_vars /\ \A c \in Calls : WF_vars(PoolStep(c))

\* the bot of index.js with its callback queries: "A" and "B" have accounts,
\* ADMIN_ID is unset or is "A", and messages create accounts meanwhile
InitBroadcast ==
  /\ users = [InitUsers EXCEPT !["B"] = NewUserRow(NULL)]
  /\ InitLedger
  /\ variable_conflict = "error"
  /\ pool \in BOOLEAN
  /\ ADMIN_ID \in {NULL, "A"}
  /\ limit = BroadcastCalls

NextBroadcast ==
  \E c \in Calls :
    \/ StartCallback(c)
    \/ BroadcastQuery(c)
    \/ BroadcastSend(c)
    \/ BroadcastReport(c)
    \/ StartMessage(c)
    \/ MessageExists(c)
    \/ MessagePgInsert(c)
    \/ MessagePgRpc(c)
    \/ MessagePgCommit(c)
    \/ MessageSbInsert(c)
    \/ MessageSbRpc(c)
    \/ EnsureUser(c)
    \/ EnsureInsert(c)

SpecBroadcast == InitBroadcast /\ [][NextBroadcast]_vars

\* every entry point of the repository against one store: the SQL functions
\* and both revisions of the server
InitAll ==
  /\ users = InitUsers
  /\ InitLedger
  /\ variable_conflict \in {"error", "use_column"}
  /\ pool \in BOOLEAN
  /\ ADMIN_ID = NULL
  /\ limit = AllCalls

NextAll == NextSql \/ NextWeb \/ NextBot

SpecAll == InitAll /\ [][NextAll]_vars

(* ------------------------------ claims --------------------------------- *)

\* the calls of handler h for the pair (r, d)
CallsFor(h, r, d) ==
  {c \in Calls : req[c].h = h /\ req[c].r = r /\ req[c].d = d}

\* every call started so far has finished
Quiescent == \A q \in Calls : Started(q) => Finished(q)

\* no two calls of the run overlapped
SequentialRun == \A q \in Calls : Started(q) => req[q].seq

AlreadyClaimed(c) ==
  Finished(c) /\ req[c].out \in {"not_rewarded", "already_user"}

\* What each design asks of the referred id before the first claim: the
\* referral_rewards design rewards a registered user (both columns reference
\* users), manual_refer_by_id creates the referred user.
DesignPrecondition(h, S) ==
  /\ \A c \in S : req[c].rex
  /\ h = "reward_referrer" => \A c \in S : req[c].dex
  /\ h = "manual_refer_by_id" => \A c \in S : req[c].first => ~req[c].dex

\* C1: for one pair (r, d), r # d, with an existing referrer, when only claims
\* for that pair were made (reward_referrer, or manual_refer_by_id), in any
\* interleaving, and all have returned: exactly one of them was rewarded
\* (rewarded = true / success = true) and every other one returned the
\* non-rewarded already-claimed outcome.
C1_ExactlyOneRewarded ==
  \A h \in {"reward_referrer", "manual_refer_by_id"}, r \in Ids, d \in Ids :
    LET S == CallsFor(h, r, d) IN
      ( /\ r # d
        /\ S # {}
        /\ \A q \in Calls : Started(q) => q \in S
        /\ Quiescent
        /\ DesignPrecondition(h, S) )
      => /\ Cardinality({c \in S : Rewarded(c)}) = 1
         /\ \A c \in S : Rewarded(c) \/ AlreadyClaimed(c)

\* C3: in a run without overlapping calls, for an existing referrer and r # d,
\* the first claim for a pair is rewarded and every claim after a rewarded one
\* returns already-claimed; with referrer "A" at coins 100 and referrals_count
\* 0, after one or more claims for ("A", "B") and nothing else, "A" is at
\* referrals_count 1 and coins 200.
C3_SequentialIdempotence ==
  \A h \in {"reward_referrer", "manual_refer_by_id"} :
    /\ \A c \in Calls :
         ( /\ Finished(c) /\ req[c].h = h
           /\ req[c].r # req[c].d
           /\ SequentialRun
           /\ DesignPrecondition(h, {c}) )
         => /\ req[c].first => Rewarded(c)
            /\ req[c].prior => AlreadyClaimed(c)
    /\ LET S == CallsFor(h, "A", "B") IN
         ( /\ S # {}
           /\ \A q \in Calls : Started(q) => q \in S
           /\ Quiescent /\ SequentialRun
           /\ DesignPrecondition(h, S) )
         => users["A"].rc = 1 /\ users["A"].coins = 200

(* the Telegram and HTTP referral handlers *)

\* the referral of d by r is on record
Recorded(r, d) ==
  \/ users[d].ex /\ users[d].rb = r
  \/ <<r, d>> \in referrals
  \/ <<r, d>> \in referral_rewards

\* only calls of handler h for the pair (r, d) were made, at least one, and
\* all have finished; the referrer had an account before the first one
OnlyClaims(h, r, d) ==
  /\ r # d
  /\ InitUsers[r].ex
  /\ CallsFor(h, r, d) # {}
  /\ \A q \in Calls : Started(q) => q \in CallsFor(h, r, d)
  /\ Quiescent

\* C2: after any number of deliveries of the same claim (inviter r, new user
\* d) through POST /telegram/webhook or the Telegram message handler, with no
\* failure of the store or the network, all handled: the inviter's
\* referrals_count is exactly 1 and the coins exactly 100 above what they were
\* before the first delivery.
C2_DuplicateDeliveriesCreditOnce ==
  \A h \in {"webhook", "message"}, r \in Ids, d \in Ids :
    ( /\ OnlyClaims(h, r, d)
      /\ ~InitUsers[d].ex
      /\ \A c \in CallsFor(h, r, d) : ~req[c].fault )
    => /\ users[r].rc = InitUsers[r].rc + 1
       /\ users[r].coins = InitUsers[r].coins + REFERRAL_BONUS

\* C4: when the handlers of the claims for a pair (r, d) have finished
\* (committed, rolled back or failed part-way), the referral is on record
\* (d has a row with referred_by = r, or a referral row for the pair exists)
\* if and only if r has been credited.
C4_RecordedIffCredited ==
  \A h \in {"message", "api_user"}, r \in Ids, d \in Ids :
    OnlyClaims(h, r, d)
    => (Recorded(r, d) <=> users[r].rc > InitUsers[r].rc)

\* C5: when every "/start ref_<r>" claim from d made so far ended with its
\* pg transaction rolled back, the ledger is as before the claims: r's coins
\* and referrals_count unchanged, no transactions row for the bonus, and d has
\* no row with referred_by = r.
C5_RollbackLeavesNoTrace ==
  \A r \in Ids, d \in Ids :
    ( /\ OnlyClaims("message", r, d)
      /\ \A c \in CallsFor("message", r, d) : req[c].bonus = "rolled-back" )
    => /\ users[r] = InitUsers[r]
       /\ transactions[<<r, d>>] = 0
       /\ ~(users[d].ex /\ users[d].rb = r)

\* C6: when the record_and_reward_referral call of a claim for (r, d) came
\* back as an error or threw, the claim and its retries with the same
\* arguments have credited r at most once.
C6_UnknownOutcomeCreditsOnce ==
  \A r \in Ids, d \in Ids :
    ( /\ OnlyClaims("message", r, d)
      /\ \E c \in CallsFor("message", r, d) : req[c].rpc = "err" )
    => /\ users[r].rc <= InitUsers[r].rc + 1
       /\ users[r].coins <= InitUsers[r].coins + REFERRAL_BONUS

(* self-referral and the referral columns *)

\* call c is a referral claim naming the claimant as the referrer
SelfClaim(c) ==
  /\ req[c].h \in {"api_user", "webhook", "message", "manual_refer_by_id"}
  /\ req[c].r # NULL
  /\ req[c].r = req[c].d

C8_NoSelfReferredRow ==
  \A i \in Ids : users[i].ex => users[i].rb # i

\* manual_refer_by_id(x, x) was stopped by the check constraint, and a
\* referral of another user is stored
C8_Witness ==
  /\ \E c \in Calls : Finished(c) /\ req[c].out = "error_check"
  /\ \E i \in Ids : users[i].ex /\ users[i].rb # NULL

\* C9: referred_by, once not null, does not change in any step.
C9_ReferredByStable ==
  [][ \A i \in Ids :
        (users[i].ex /\ users[i].rb # NULL) => users'[i].rb = users[i].rb ]_vars

\* the statements that credit a referrer
CreditSteps ==
  {"rr_update", "mr_update", "arb_rpc", "arb_fallback",
   "msg_pg_rpc", "msg_pg_commit", "msg_sb_rpc"}

\* C10: no step lowers a referrals_count, and a step that changes one is a
\* crediting statement of a referral claim.
C10_ReferralsCountMonotone ==
  [][ \A i \in Ids :
        /\ users'[i].rc >= users[i].rc
        /\ users'[i].rc # users[i].rc
             => \E c \in Calls : /\ req'[c] # req[c]
                                /\ req[c].pc \in CreditSteps ]_vars

(* balances and purchases *)

\* C11: every user's coins are >= 0 in every state.
C11_BalanceNonNegative ==
  \A i \in Ids : users[i].ex => users[i].coins >= 0

\* the calls started so far
StartedCalls == {c \in Calls : Started(c)}

Purchased(c) ==
  Finished(c) /\ req[c].h = "purchase_business" /\ req[c].out = "success"

\* only purchase_business calls were made, at least two, all for user u and
\* quantity qty, each costing qty * 1000
OnlyPurchases(u, qty) ==
  /\ Cardinality(StartedCalls) >= 2
  /\ \A c \in StartedCalls : /\ req[c].h = "purchase_business"
                              /\ req[c].d = u
                              /\ req[c].buy.qty = qty

\* C12: for a user with balance B and N purchase_business calls, in any
\* interleaving, each costing C = qty * 1000 with N * C > B: no state on the
\* way has a negative balance, and when all have returned exactly B \div C of
\* them succeeded, the others returned insufficient_funds, the balance is
\* B - succeeded * C, and the quantity owned of each business is the sum of
\* the quantities of the succeeded calls for it.
C12_PurchaseAtomicity ==
  \A u \in Ids, qty \in {1, 2} :
    LET B == InitShopUsers[u].coins
        C == PurchaseCost(qty)
        N == Cardinality(StartedCalls)
        ok == {c \in StartedCalls : Purchased(c)}
    IN (InitShopUsers[u].ex /\ OnlyPurchases(u, qty) /\ N * C > B)
       => /\ users[u].coins >= 0
          /\ Quiescent
               => /\ Cardinality(ok) = B \div C
                  /\ \A c \in StartedCalls \ ok :
                       req[c].out = "insufficient_funds"
                  /\ users[u].coins = B - Cardinality(ok) * C
                  /\ \A b \in Businesses :
                       users[u].biz[b] =
                         qty * Cardinality({c \in ok : req[c].buy.business = b})

\* two overlapping purchases of 1000 coins each by "C", who has 1000: one
\* succeeded, one returned insufficient_funds
C12_Witness ==
  \E c \in Calls, q \in Calls :
    /\ OnlyPurchases("C", 1)
    /\ Purchased(c)
    /\ Finished(q) /\ req[q].out = "insufficient_funds"
    /\ ~req[q].seq

\* what a finished call has added to the coins of u: the answer of a mine
\* request, the bonus of a rewarded referral with referrer u, minus the cost
\* of a purchase by u
Committed(c, u) ==
  IF ~Finished(c) THEN 0
  ELSE IF req[c].h \in {"mine", "bot_mine"} /\ req[c].d = u THEN req[c].gain
  ELSE IF req[c].h = "manual_refer_by_id" /\ req[c].r = u /\ req[c].out = "success"
    THEN REFERRAL_BONUS
  ELSE IF Purchased(c) /\ req[c].d = u THEN 0 - PurchaseCost(req[c].buy.qty)
  ELSE 0

RECURSIVE SumCommitted(_, _)
SumCommitted(S, u) ==
  IF S = {} THEN 0
  ELSE LET c == CHOOSE x \in S : TRUE
       IN Committed(c, u) + SumCommitted(S \ {c}, u)

\* C13: when mine requests, referral rewards and purchases (no
\* POST /api/user/update) have all finished, in any interleaving, the coins
\* of every user are the initial coins plus every credit minus every debit
\* the calls have committed.
C13_BalanceWritesSerialize ==
  \A u \in Ids :
    ( /\ InitShopUsers[u].ex
      /\ Quiescent
      /\ \A c \in StartedCalls : req[c].h # "update" )
    => users[u].coins = InitShopUsers[u].coins + SumCommitted(Calls, u)

\* the total cost of qty units is more than coins (without forming the
\* product)
CostExceeds(qty, coins) == qty > 0 /\ qty > coins \div UNIT_COST

\* call c returns in this step
Returns(c) == ~Finished(c) /\ Finished(c)'

\* C14: a purchase_business call that returns while its total cost exceeds
\* the user's balance returns insufficient_funds and leaves users and
\* business_totals as they are; and when only purchase_business("C", "DAPP",
\* 1) calls were made, one after the other, with "C" at 1000 coins and no
\* DAPP: the first succeeded, every later one returned insufficient_funds,
\* and "C" has 0 coins and 1 DAPP.
C14_InsufficientFundsNoMutation ==
  /\ [][ \A c \in Calls :
          ( /\ req[c].h = "purchase_business" /\ Returns(c)
            /\ users[req[c].d].ex
            /\ CostExceeds(req[c].buy.qty, users[req[c].d].coins) )
          => /\ req'[c].out = "insufficient_funds"
             /\ UNCHANGED <<users, business_totals>> ]_vars
  /\ []( ( /\ StartedCalls # {}
           /\ \A c \in StartedCalls : /\ req[c].h = "purchase_business"
                                       /\ req[c].d = "C"
                                       /\ req[c].buy.business = "DAPP"
                                       /\ req[c].buy.qty = 1
           /\ Quiescent /\ SequentialRun )
         => /\ users["C"].coins = 0
            /\ users["C"].biz["DAPP"] = 1
            /\ \A c \in StartedCalls :
                 req[c].out = IF c = 1 THEN "success" ELSE "insufficient_funds" )

\* C15: the step in which a purchase_business(d, b, qty) call succeeds takes
\* exactly qty * 1000 from d's coins, adds exactly qty to d's quantity of b,
\* reports that new quantity, and leaves d's other quantities and every
\* other user's row as they are.
C15_PurchaseEffect ==
  [][ \A c \in Calls :
        (~Purchased(c) /\ Purchased(c)')
        => LET d == req[c].d
               b == req[c].buy.business
               qty == req[c].buy.qty
           IN /\ users'[d].coins = users[d].coins - PurchaseCost(qty)
              /\ ~users'[d].bnull
              /\ users'[d].biz[b] = users[d].biz[b] + qty
              /\ req'[c].buy.owned = users'[d].biz[b]
              /\ \A k \in Businesses \ {b} : users'[d].biz[k] = users[d].biz[k]
              /\ \A i \in Ids \ {d} : users'[i] = users[i] ]_vars

\* C16: when only purchases were made and all have returned, total_qty of
\* each business is the sum of the quantities the users own of it, and
\* total_invested is the coins spent on it.
C16_TotalsMatchLedger ==
  ( /\ \A c \in StartedCalls : req[c].h = "purchase_business"
    /\ Quiescent )
  => \A k \in Businesses :
       /\ business_totals[k].total_qty = SumOwned(users, NULL, NoRow, k)
       /\ business_totals[k].total_invested
            = UNIT_COST * SumOwned(users, NULL, NoRow, k)

\* C17: no step of a purchase_business call with p_qty <= 0 changes users or
\* business_totals, and the call returns invalid_qty.
C17_InvalidQuantityRejected ==
  [][ \A c \in Calls :
        ( /\ req'[c] # req[c]
          /\ req'[c].h = "purchase_business"
          /\ req'[c].buy.qty <= 0 )
        => /\ UNCHANGED <<users, business_totals>>
           /\ Finished(c)' => req'[c].out = "invalid_qty" ]_vars

\* C18: a purchase_business call for an id without a users row changes
\* nothing and returns an outcome other than insufficient_funds.
C18_UnknownUserReported ==
  [][ \A c \in Calls :
        ( /\ req[c].h = "purchase_business"
          /\ req[c].pc = "pb_select" /\ Returns(c)
          /\ ~users[req[c].d].ex )
        => /\ UNCHANGED <<users, business_totals>>
           /\ req'[c].out \notin {"insufficient_funds", "success"} ]_vars

(* referrers and referred users *)

\* C19: a referral claim (r, d), r # d, made and finished while r has no
\* users row is not answered as a success and leaves no row of d with
\* referred_by = r and no transactions row for the pair.
C19_UnknownReferrerRejected ==
  \A c \in Calls :
    ( /\ Finished(c)
      /\ req[c].h \in {"manual_refer_by_id", "message", "api_user"}
      /\ req[c].r # NULL /\ req[c].r # req[c].d
      /\ ~req[c].rex /\ ~users[req[c].r].ex )
    => /\ req[c].out # "success"
       /\ ~(users[req[c].d].ex /\ users[req[c].d].rb = req[c].r)
       /\ transactions[<<req[c].r, req[c].d>>] = 0

\* call c is a referral claim of somebody else's link by a user d who had a
\* users row when the claim arrived
ClaimByExistingUser(c) ==
  /\ req[c].h \in {"manual_refer_by_id", "message", "webhook"}
  /\ req[c].r # NULL /\ req[c].r # req[c].d
  /\ req[c].dex

\* C20: no step of a referral claim (r, d), r # d, for a d that had a users
\* row when the claim arrived changes d's referred_by or r's coins or
\* referrals_count, and the claim ends as rejected: already_user from
\* manual_refer_by_id, "referral not applied" from the message handler, the
\* plain 200 of the webhook.
C20_OnlyNewUsersReferred ==
  [][ \A c \in Calls :
        (req'[c] # req[c] /\ ClaimByExistingUser(c)')
        => LET r == req'[c].r
               d == req'[c].d
           IN /\ users'[d].rb = users[d].rb
              /\ users'[r].coins = users[r].coins
              /\ users'[r].rc = users[r].rc
              /\ Finished(c)' =>
                   \/ req'[c].h = "manual_refer_by_id" /\ req'[c].out = "already_user"
                   \/ req'[c].h = "message" /\ req'[c].bonus = "already-account"
                   \/ req'[c].h = "webhook" /\ req'[c].bonus = "none" ]_vars

\* a claim of "A"'s link by a user who already had an account has finished,
\* through each of two different entry points
C20_Witness ==
  \E c \in Calls, q \in Calls :
    /\ Finished(c) /\ ClaimByExistingUser(c)
    /\ Finished(q) /\ ClaimByExistingUser(q)
    /\ req[c].h # req[q].h

(* the account endpoint, validation order, audit records *)

\* C21: the look-up and the write of a POST /api/user request, taken when
\* the id has a users row (the request has not created it: these steps come
\* before its own write), change nothing in the store and end the request
\* with a 200 that carries the user; this also when the row was created
\* after the request's look-up.
C21_ExistingUserUnchanged ==
  [][ \A c \in Calls :
        ( /\ req[c].pc \in {"au_select", "au_insert", "iu_select", "iu_upsert"}
          /\ req'[c] # req[c]
          /\ users[req[c].d].ex )
        => /\ UNCHANGED <<users, referral_rewards, referrals, transactions,
                          business_totals>>
           /\ Finished(c)' /\ req'[c].out \in {"200_existing", "200_created"} ]_vars

\* C22: of the checks a referral claim fails, manual_refer_by_id reports the
\* first in the order self-referral, referrer, referred user: a claim (d, d)
\* of an id that has an account is refused as a self-referral (the
\* no_self_referral violation, the function's only self-referral answer),
\* and a claim (r, d) with no row for r and a row for d is not answered
\* already_user.
C22_ValidationOrder ==
  \A c \in Calls :
    (Finished(c) /\ req[c].h = "manual_refer_by_id" /\ req[c].dex)
    => /\ req[c].r = req[c].d => req[c].out = "error_check"
       /\ (req[c].r # req[c].d /\ ~req[c].rex /\ ~users[req[c].r].ex)
            => req[c].out # "already_user"

\* the 'refer' rows of transactions with user_id = r
ReferRows(r) ==
  LET RECURSIVE Sum(_)
      Sum(S) == IF S = {} THEN 0
                ELSE LET d == CHOOSE x \in S : TRUE
                     IN transactions[<<r, d>>] + Sum(S \ {d})
  IN Sum(Ids)

\* C23: when only Telegram messages were handled and all handlers have
\* finished, every user has as many 'refer' rows in transactions as referral
\* bonuses were credited to them (referrals_count counts the credits: no
\* other statement of the message handler writes it).
C23_RewardsAudited ==
  ( /\ \A q \in Calls : Started(q) => req[q].h = "message"
    /\ Quiescent )
  => \A r \in Ids : ReferRows(r) = users[r].rc - InitUsers[r].rc

\* applyReferralBonus of call c credited the referrer: the RPC was applied and
\* answered, or the fallback update ran
BonusApplied(c) ==
  \/ req[c].bonus = "rpc" /\ ~req[c].fault
  \/ req[c].bonus = "fallback-update"

\* the users table after a sign-up of d with referrer r on the table u: an
\* existing d changes nothing; a new d gets a row whose referred_by is r
\* unless r is d or absent, and the referrer is credited once if credited
SignUpOutcome(u, r, d, credited) ==
  IF u[d].ex THEN u
  ELSE LET by == IF r # NULL /\ r # d THEN r ELSE NULL
           created == [u EXCEPT ![d] = NewUserRow(by)]
       IN IF credited /\ by # NULL /\ u[by].ex
            THEN [created EXCEPT ![by].coins = @ + REFERRAL_BONUS,
                                 ![by].rc = @ + 1]
            ELSE created

C25_FailuresNotAnsweredOk ==
  \A c \in Calls :
    ( /\ Finished(c)
      /\ req[c].h = "api_user"
      /\ req[c].r # NULL
      /\ \/ req[c].r = req[c].d
         \/ ~req[c].rex /\ ~users[req[c].r].ex
         \/ req[c].dex )
    => req[c].out \notin {"200_existing", "200_created"}

(* passive income, the pool, costs *)

\* the quantity an entry stands for: its number, also when written as a
\* string of digits; nothing for a missing, null or non-numeric value
OwnedQty(v) == IF v.t \in {"num", "numstr"} THEN v.n ELSE 0

\* the businesses object an argument carries: the object itself, or for
\* index.js the object a JSON string holds; anything else carries none
WellFormed(ver, form) ==
  form = "object" \/ (form = "json" /\ ver = "bot_mine")

\* quantity * income rate over the keys that name a business of the server
IncomeSum(ver, biz) ==
  LET RECURSIVE Sum(_)
      Sum(S) == IF S = {} THEN 0
                ELSE LET k == CHOOSE x \in S : TRUE
                     IN (IF FindBusiness(ver, k) = NULL THEN 0
                         ELSE Income(ver, FindBusiness(ver, k)) * OwnedQty(biz[k]))
                        + Sum(S \ {k})
  IN Sum(BusinessKeysSent)

\* C26: calculatePassiveIncome returns a number, the sum of quantity * income
\* rate over the entries whose key names a business (an entry under another
\* key adds nothing), 0 for a missing or malformed argument and for a
\* malformed quantity, and the call changes nothing in the store.
C26_PassiveIncomeIsTheSum ==
  \A c \in Calls :
    (Finished(c) /\ req[c].h = "calculatePassiveIncome")
    => /\ ~req[c].inc.nan
       /\ req[c].inc.total =
            IF WellFormed(req[c].inc.ver, req[c].inc.form)
              THEN IncomeSum(req[c].inc.ver, req[c].inc.biz)
              ELSE 0
       /\ users = InitShopUsers

\* C27: createPoolWithRetry(connStr, attempts, delayMs) never makes more than
\* attempts connection attempts (none when attempts is 0), and every call
\* ends: it returns a pool that connected, or it throws after attempts failed
\* attempts the error of the last one (lastErr, null when no attempt was
\* made) and the pool stays null; no step of it writes to the store.
C27_BoundedRetry ==
  /\ [](\A c \in Calls :
          req[c].h = "createPoolWithRetry"
          => /\ req[c].conn.made <= req[c].conn.attempts
             /\ Finished(c) =>
                  \/ req[c].out = "returned" /\ pool
                  \/ /\ req[c].out = "threw" /\ ~pool
                     /\ req[c].conn.made = req[c].conn.attempts
                     /\ req[c].conn.lastErr = req[c].conn.attempts)
  /\ \A c \in Calls :
       (req[c].h = "createPoolWithRetry") ~> Finished(c)
  /\ [][ \A c \in Calls :
           (req'[c] # req[c] /\ req'[c].h = "createPoolWithRetry")
           => UNCHANGED <<users, referral_rewards, referrals, transactions,
                          business_totals>> ]_vars

\* a startup with attempts = 3 has failed three times and thrown: the pool is
\* null and a message was handled without it
C27_Witness ==
  \E c \in Calls, q \in Calls :
    /\ Finished(c) /\ req[c].h = "createPoolWithRetry"
    /\ req[c].conn.attempts = 3 /\ req[c].conn.made = 3
    /\ req[c].out = "threw" /\ ~pool
    /\ Finished(q) /\ req[q].h = "message"

(* reward_referrer, applyReferralBonus, prices *)

\* C28: a reward_referrer call for a referrer without a users row, made and
\* finished while there is none, returns rewarded = false and leaves no
\* referral_rewards row for the pair.
C28_MissingReferrerNotRewarded ==
  \A c \in Calls :
    ( /\ Finished(c)
      /\ req[c].h = "reward_referrer"
      /\ ~req[c].rex /\ ~users[req[c].r].ex )
    => /\ req[c].out = "not_rewarded"
       /\ <<req[c].r, req[c].d>> \notin referral_rewards

\* C29: when the one request of a run has ended with applyReferralBonus
\* reporting ok: true (method rpc or fallback-update), the referrer's
\* referrals_count is one and the coins 100 above what they were: also when
\* the increment_referral_bonus call threw or resolved with an error.
C29_OkMeansCreditedOnce ==
  \A c \in Calls :
    ( /\ StartedCalls = {c}
      /\ Finished(c)
      /\ req[c].bonus \in {"rpc", "fallback-update"} )
    => /\ users[req[c].eff].rc = InitUsers[req[c].eff].rc + 1
       /\ users[req[c].eff].coins = InitUsers[req[c].eff].coins + REFERRAL_BONUS

\* C30: the step that commits a successful purchase of qty units of a
\* business takes qty times the catalog price of that business from the
\* buyer's coins: the price of public.businesses, which is the price of the
\* backend's BUSINESSES table.
C30_DebitIsCatalogPrice ==
  [][ \A c \in Calls :
        ( /\ req[c].h = "purchase_business"
          /\ req[c].out # "success" /\ req'[c].out = "success" )
        => LET debit == users[req[c].d].coins - users'[req[c].d].coins
               b == req[c].buy.business
           IN /\ debit = req[c].buy.qty * CatalogCost(b)
              /\ debit = req[c].buy.qty * BusinessCost(b) ]_vars

(* the catalog, updates, mining *)

\* C31: a purchase_business call that names no business of the catalog does
\* not succeed, and no step of it debits coins, adds a key to a businesses
\* object or writes business_totals.
C31_UnknownBusinessRejected ==
  [][ \A c \in Calls :
        ( /\ req'[c] # req[c]
          /\ req'[c].h = "purchase_business"
          /\ req'[c].buy.business \notin Businesses )
        => /\ req'[c].out # "success"
           /\ UNCHANGED <<users, business_totals>> ]_vars

C33_OneMinePerWindow ==
  [][ \A c \in Calls :
        ( /\ req[c].h \in {"mine", "bot_mine"}
          /\ req[c].pc = "mine_update"
          /\ req'[c].out = "200_ok" )
        => users[req[c].d].last_mine # "recent" ]_vars

(* ------------------- referral counts, accounts ------------------------- *)

\* the users whose referred_by is r
ReferredBy(r) == {d \in Ids : users[d].ex /\ users[d].rb = r}

\* C34: whenever no call is in progress, the referrals_count of every user is
\* the number of users rows whose referred_by is that user, whichever SQL
\* function or endpoint was called.
C34_CountMatchesReferredBy ==
  Quiescent =>
    \A r \in Ids : users[r].ex => users[r].rc = Cardinality(ReferredBy(r))

\* C35: a step of ensureUserTelegram changes no row but the one of the chat
\* id, leaves that row alone when it exists, and otherwise at most creates it
\* with coins 100 and no referrer, with a pool and without one.
C35_EnsureCreatesOnlyMissing ==
  [][ \A c \in Calls :
        (req[c].pc \in {"ens", "ens_insert"} /\ req'[c] # req[c])
        => LET d == req[c].d
           IN /\ \A i \in Ids : i # d => users'[i] = users[i]
              /\ users[d].ex => users'[d] = users[d]
              /\ ~users[d].ex => users'[d] \in {users[d], NewUserRow(NULL)} ]_vars

\* C36: a message handler has sent the inviter "joined using your link! You
\* earned 100 coins!" only if that same handling credited the inviter 100
\* coins (at least once).
C36_NotifiedOnlyIfCredited ==
  \A c \in Calls :
    (req[c].h = "message" /\ req[c].note = "sent")
    => req[c].credit >= REFERRAL_BONUS

(* ------------------------------ broadcast ------------------------------ *)

\* the bot.sendMessage calls the broadcast of call c has made
Attempts(c) ==
  LET RECURSIVE Sum(_)
      Sum(S) == IF S = {} THEN 0
                ELSE LET i == CHOOSE x \in S : TRUE
                     IN req[c].bc.tried[i] + Sum(S \ {i})
  IN Sum(Ids)

\* C37: a broadcast confirmation sends to somebody only when ADMIN_ID is set
\* and the callback comes from it; from anybody else, or with ADMIN_ID unset,
\* it is answered "Not authorized." and nothing is sent.  An authorized
\* broadcast sends to no one outside the rows of its query and to nobody
\* twice; when it reports, every row was tried exactly once and the count it
\* reports as sent is at most the number of rows it reports.
C37_BroadcastOnlyByAdmin ==
  \A c \in Calls :
    (req[c].h = "callback_query" /\ IsBroadcast(req[c].bc.data))
    => /\ (ADMIN_ID = NULL \/ req[c].bc.from # ADMIN_ID)
            => /\ req[c].out = "not_authorized"
               /\ Attempts(c) = 0
               /\ req[c].bc.report = NoReport
       /\ \A i \in Ids :
            /\ req[c].bc.tried[i] <= 1
            /\ req[c].bc.tried[i] = 1 => i \in req[c].bc.rows
       /\ req[c].bc.sent <= Attempts(c)
       /\ req[c].out = "completed"
            => /\ \A i \in req[c].bc.rows : req[c].bc.tried[i] = 1
               /\ req[c].bc.report.total = Cardinality(req[c].bc.rows)
               /\ req[c].bc.report.sent = req[c].bc.sent
               /\ req[c].bc.report.sent <= req[c].bc.report.total

\* the admin's broadcast to two users has completed with one send that
\* failed, and another sender's confirmation was refused
C37_Witness ==
  \E c \in Calls, q \in Calls :
    /\ req[c].h = "callback_query" /\ req[c].out = "completed"
    /\ req[c].bc.from = ADMIN_ID
    /\ Cardinality(req[c].bc.rows) = 2
    /\ req[c].bc.report = [sent |-> 1, total |-> 2]
    /\ req[q].h = "callback_query" /\ req[q].out = "not_authorized"

====
